---- MODULE Spec2Model ----
(***************************************************************************)
(* Model of src/app.py: the Streamlit front end of a support-ticket        *)
(* system.  The module covers the ticket-creation workflow                 *)
(* (create_ticket_page), the status update of the admin panel              *)
(* (admin_panel / update_ticket_status) and fetch-by-id                    *)
(* (get_ticket_by_id), together with the client functions they call.       *)
(*                                                                         *)
(* Every remote call is synchronous: the page issues the request, blocks,  *)
(* and continues with the value its client function makes of the response. *)
(* The model splits the page at the blocking calls; the response is an     *)
(* input chosen by the remote side.                                        *)
(***************************************************************************)
EXTENDS Integers, Sequences, FiniteSets, TLC

(***************************************************************************)
(* Bounds                                                                  *)
(***************************************************************************)
\* largest number of files selected in the creation form
MaxFiles == 2
\* ticket identifiers the backend may assign / hold are 1..MaxTicketId
MaxTicketId == 2

\* longest attachment URL, in tokens
MaxUrlLen == 4
\* most replies of a ticket when their timestamps vary
MaxReplies == 3
\* most replies of a ticket when their role and text fields vary
MaxRoleReplies == 2
\* the ISO timestamps of the replies are 1..MaxTime
MaxTime == 2
\* longest text typed into the reply form, in characters
MaxReplyLen == 2

TicketIds == 1 .. MaxTicketId

(***************************************************************************)
(* Values                                                                  *)
(***************************************************************************)
\* Python's None, as a string (a URL or a text input) and as a JSON value
Null == "null"
NoneVal == [tag |-> "none", id |-> 0, status |-> Null]
\* a JSON object without members, {}: falsy in Python
EmptyObj == [tag |-> "empty", id |-> 0, status |-> Null]
\* the JSON body of an error response, {"detail": ...}: a non-empty object
ErrorObj == [tag |-> "error", id |-> 0, status |-> Null]
\* the JSON body of an AI reply
ReplyObj == [tag |-> "reply", id |-> 0, status |-> Null]

TicketObj(id, status) == [tag |-> "ticket", id |-> id, status |-> status]

\* truth value of a Python string or None
TruthyStr(s) == s \notin {Null, ""}
\* truth value of a decoded JSON value: None and {} are falsy
TruthyObj(v) == v.tag \notin {"none", "empty"}

Categories == {"Technical", "Bug Report", "Feature Request",
               "General Inquiry", "Account Issue"}
Statuses == {"Open", "In Progress", "Closed"}

\* what the user can type in a text input of the form
TextInputs == {"", "x"}
EmailInputs == {"", "a@b.c"}

(***************************************************************************)
(* Responses of the remote side.  exc = TRUE is a transport failure        *)
(* (requests raises); otherwise code is the HTTP status code.              *)
(***************************************************************************)
TransportError == [exc |-> TRUE, code |-> 0, body |-> NoneVal,
                   signed_url |-> Null, attachment_url |-> Null]

Resp(code, body) == [exc |-> FALSE, code |-> code, body |-> body,
                     signed_url |-> Null, attachment_url |-> Null]

UploadResp(code, s, a) == [exc |-> FALSE, code |-> code, body |-> EmptyObj,
                           signed_url |-> s, attachment_url |-> a]

\* POST /tickets/
CreateResponses ==
    {Resp(c, TicketObj(id, "Open")) : c \in {200, 201}, id \in TicketIds}
    \cup {Resp(500, ErrorObj), TransportError}

\* POST /tickets/{id}/attachment
UploadResponses ==
    {UploadResp(200, s, a) : s \in {Null, "signed"}, a \in {Null, "perm"}}
    \cup {UploadResp(500, Null, Null), TransportError}

\* POST /ai/reply
AIResponses ==
    {Resp(200, ReplyObj), Resp(500, ErrorObj), TransportError}

\* POST /tickets/{id}/send-email
EmailResponses == {Resp(200, EmptyObj), Resp(500, ErrorObj), TransportError}

(***************************************************************************)
(* Client functions.  Each yields the returned value (ret) and the         *)
(* st.error messages it shows itself (msgs).                               *)
(***************************************************************************)
Msg(step, file, level) == [step |-> step, file |-> file, level |-> level]

create_ticket(resp, f) ==
    IF resp.exc
    THEN [ret |-> NoneVal, msgs |-> <<Msg("create", f, "error")>>]
    ELSE IF resp.code \in {200, 201}
         THEN [ret |-> resp.body, msgs |-> <<>>]
         ELSE [ret |-> NoneVal, msgs |-> <<Msg("create", f, "error")>>]

upload_file_via_api(resp, f) ==
    IF resp.exc
    THEN [ret |-> Null, msgs |-> <<Msg("upload", f, "error")>>]
    ELSE IF resp.code = 200
         THEN [ret |-> IF TruthyStr(resp.signed_url)
                       THEN resp.signed_url
                       ELSE resp.attachment_url,
               msgs |-> <<>>]
         ELSE [ret |-> Null, msgs |-> <<Msg("upload", f, "error")>>]

generate_ai_reply(resp, f) ==
    IF resp.exc
    THEN [ret |-> NoneVal, msgs |-> <<Msg("ai", f, "error")>>]
    ELSE IF resp.code = 200
         THEN [ret |-> resp.body, msgs |-> <<>>]
         ELSE [ret |-> NoneVal, msgs |-> <<Msg("ai", f, "error")>>]

send_email_via_api(resp, f) ==
    IF resp.exc
    THEN [ret |-> FALSE, msgs |-> <<Msg("email", f, "error")>>]
    ELSE [ret |-> (resp.code = 200), msgs |-> <<>>]

\* a ticket id the backend does not hold / the page does not display
Absent == "absent"
NoTickets == [i \in TicketIds |-> Absent]

ListResp(code, list) == [exc |-> FALSE, code |-> code, list |-> list]
ListTransportError == [exc |-> TRUE, code |-> 0, list |-> NoTickets]

\* GET /tickets/ answered from backend state b
GetAllResponses(b) ==
    {ListResp(200, b), ListResp(500, NoTickets), ListTransportError}

\* GET /tickets/{id} answered from backend state b
GetTicketResponses(b, id) ==
    IF b[id] = Absent
    THEN {Resp(404, ErrorObj), TransportError}
    ELSE {Resp(200, TicketObj(id, b[id])), Resp(500, ErrorObj), TransportError}

\* PATCH /tickets/{id}/status with {status}: the response and the backend
\* state it leaves
PatchStatusOutcomes(b, req) ==
    IF b[req.id] = Absent
    THEN {[resp |-> Resp(404, ErrorObj), backend |-> b],
          [resp |-> TransportError, backend |-> b]}
    ELSE {[resp |-> Resp(200, EmptyObj),
           backend |-> [b EXCEPT ![req.id] = req.status]],
          [resp |-> Resp(500, ErrorObj), backend |-> b],
          [resp |-> TransportError, backend |-> b]}

get_all_tickets(resp) ==
    IF resp.exc
    THEN [ret |-> NoTickets, msgs |-> <<Msg("fetch_all", 0, "error")>>]
    ELSE IF resp.code = 200
         THEN [ret |-> resp.list, msgs |-> <<>>]
         ELSE [ret |-> NoTickets, msgs |-> <<Msg("fetch_all", 0, "error")>>]

get_ticket_by_id_any_code(resp, f) ==
    IF resp.exc
    THEN [ret |-> NoneVal, msgs |-> <<Msg("fetch", f, "error")>>]
    ELSE [ret |-> resp.body, msgs |-> <<>>]

get_ticket_by_id(resp, f) ==
    IF resp.exc
    THEN [ret |-> NoneVal, msgs |-> <<Msg("fetch", f, "error")>>]
    ELSE IF resp.code = 200
         THEN [ret |-> resp.body, msgs |-> <<>>]
         ELSE [ret |-> NoneVal, msgs |-> <<Msg("fetch", f, "error")>>]

\* line 134: the request update_ticket_status sends
status_patch_request(ticket_id, status) == [id |-> ticket_id, status |-> status]

update_ticket_status_any_code(resp, f) ==
    IF resp.exc
    THEN [ret |-> FALSE, msgs |-> <<Msg("update_status", f, "error")>>]
    ELSE [ret |-> TRUE, msgs |-> <<>>]

update_ticket_status(resp, f) ==
    IF resp.exc
    THEN [ret |-> FALSE, msgs |-> <<Msg("update_status", f, "error")>>]
    ELSE [ret |-> (resp.code = 200), msgs |-> <<>>]

(***************************************************************************)
(* Raw reply records.  A key the record lacks is Missing; a key whose      *)
(* value is None is Null.  created_at and timestamp are strings, coded by  *)
(* the rank of the string in Python's string order: EmptyTs is '',         *)
(* 1..MaxTime are ISO timestamps of one format (their string order is      *)
(* their time order) and Unparseable is a text such as 'n/a', which        *)
(* follows every digit.                                                    *)
(***************************************************************************)
Missing == "missing"
MissingTs == -1
NullTs == -2
EmptyTs == 0
Unparseable == MaxTime + 1

NoAttachment == [type |-> "none", chars |-> <<>>]

Reply(id, role, reply_type, text, content, created_at, timestamp, att) ==
    [id |-> id, role |-> role, reply_type |-> reply_type, text |-> text,
     content |-> content, created_at |-> created_at, timestamp |-> timestamp,
     attachment_url |-> att]

\* GET /tickets/{id}: the replies embedded in the ticket
ReplyLists ==
    {<<>>,
     <<Reply(1, "user", Missing, "hi", Missing, 1, MissingTs, NoAttachment)>>}

RepliesResponses ==
    {ListResp(200, l) : l \in ReplyLists}
    \cup {ListResp(500, <<>>), [exc |-> TRUE, code |-> 0, list |-> <<>>]}

\* POST /tickets/{id}/replies
AddReplyResponses ==
    {Resp(200, ReplyObj), Resp(500, ErrorObj), TransportError}

add_reply_via_api(resp, f) ==
    IF resp.exc
    THEN [ret |-> NoneVal, msgs |-> <<Msg("reply", f, "error")>>]
    ELSE IF resp.code = 200
         THEN [ret |-> resp.body, msgs |-> <<>>]
         ELSE [ret |-> NoneVal, msgs |-> <<Msg("reply", f, "error")>>]

get_ticket_replies(resp) ==
    IF resp.exc
    THEN [ret |-> <<>>, msgs |-> <<Msg("fetch_replies", 0, "error")>>]
    ELSE IF resp.code = 200
         THEN [ret |-> resp.list, msgs |-> <<>>]
         ELSE [ret |-> <<>>, msgs |-> <<>>]

(***************************************************************************)
(* Attachment URLs.  A string is a sequence of tokens; the separators the  *)
(* code splits on, the escapes it replaces and the extensions it looks for *)
(* are tokens of their own.  An attachment_url value is a string           *)
(* (type "str"), a number (type "int") or None / a missing key ("none").   *)
(***************************************************************************)
UrlTokens == {"http://", "/", "?", "_", "%20", "%2B", ".PNG", ".svg", ".pdf", "a"}

BoundedSeq(S, n) == UNION {[1 .. k -> S] : k \in 0 .. n}

Str(chars) == [type |-> "str", chars |-> chars]
IntValue == [type |-> "int", chars |-> <<>>]

AttachmentValues ==
    {Str(c) : c \in BoundedSeq(UrlTokens, MaxUrlLen)} \cup {IntValue, NoAttachment}

\* lines 436, 532, 711: truth value of reply.get('attachment_url')
TruthyAttachment(a) ==
    \/ a.type = "int"
    \/ a.type = "str" /\ a.chars # <<>>

\* str.lower() of one token
Lower(t) == IF t = ".PNG" THEN ".png" ELSE t

\* lines 456, 549, 725
FileExtensions == {".png", ".jpg", ".jpeg", ".gif", ".webp", ".bmp", ".svg",
                   ".pdf", ".txt", ".doc", ".xlsx"}
\* lines 473, 562
ImageExtensions == {".png", ".jpg", ".jpeg", ".gif", ".webp", ".bmp", ".svg"}
\* line 738
AdminImageExtensions == {".png", ".jpg", ".jpeg", ".gif", ".webp", ".bmp"}

\* lines 445, 539, 715: attachment_url.split('?')[0]
url_without_params(c) ==
    IF \E k \in DOMAIN c : c[k] = "?"
    THEN SubSeq(c, 1, (CHOOSE k \in DOMAIN c :
                          c[k] = "?" /\ \A j \in 1 .. k - 1 : c[j] # "?") - 1)
    ELSE c

\* lines 448, 542, 718: url_without_params.split('/')[-1]; the token
\* "http://" ends with a '/'
path_part(c) ==
    LET slashes == {k \in DOMAIN c : c[k] \in {"/", "http://"}}
    IN  IF slashes = {} THEN c
        ELSE SubSeq(c, (CHOOSE k \in slashes : \A j \in slashes : j <= k) + 1,
                    Len(c))

\* first positions of the parts of path_part.split('_')
PartStarts(seg) == {1} \cup {k + 1 : k \in {j \in DOMAIN seg : seg[j] = "_"}}

PartAt(seg, st) ==
    LET ends == {k \in st .. Len(seg) : seg[k] = "_"}
    IN  IF ends = {} THEN SubSeq(seg, st, Len(seg))
        ELSE SubSeq(seg, st, (CHOOSE k \in ends : \A j \in ends : k <= j) - 1)

\* lines 456, 549, 725: '.' in part and any(ext in part.lower() for ext in [...])
has_file_extension(part) ==
    \E k \in DOMAIN part : Lower(part[k]) \in FileExtensions

\* lines 451-463, 545-555, 721-731
recovered_name(seg) ==
    IF Cardinality(PartStarts(seg)) >= 3
    THEN LET hits == {st \in PartStarts(seg) : has_file_extension(PartAt(seg, st))}
             last == CHOOSE st \in PartStarts(seg) :
                        \A o \in PartStarts(seg) : o <= st
         IN  IF hits # {}
             THEN SubSeq(seg, CHOOSE st \in hits : \A o \in hits : st <= o,
                         Len(seg))
             ELSE PartAt(seg, last)
    ELSE seg

\* lines 466, 558, 734: .replace('%20', ' ').replace('%2B', '+')
clean_encoding(name) ==
    [k \in DOMAIN name |->
        IF name[k] = "%20" THEN " " ELSE IF name[k] = "%2B" THEN "+" ELSE name[k]]

AttachmentName == <<"attachment">>

\* lines 537-560, 713-736: the reply-level and the admin-panel resolver
reply_file_name(a) ==
    IF a.type # "str" THEN AttachmentName
    ELSE clean_encoding(recovered_name(path_part(url_without_params(a.chars))))

\* lines 442-470: the ticket-level resolver
ticket_file_name(a) ==
    IF a.type # "str" THEN AttachmentName
    ELSE IF a.chars # <<>> /\ a.chars[1] = "http://"
         THEN clean_encoding(recovered_name(path_part(url_without_params(a.chars))))
         ELSE AttachmentName

\* lines 473, 562, 738: any(ext in attachment_url.lower() for ext in [...])
is_image(c, exts) == \E k \in DOMAIN c : Lower(c[k]) \in exts

Display(site, failed, shown, file_name, kind) ==
    [site |-> site, failed |-> failed, shown |-> shown,
     file_name |-> file_name, kind |-> kind]

\* the display of one attachment_url value at a site: nothing when the value
\* is falsy; .lower() outside the try raises on a value that is no string
display_attachment(a, site) ==
    IF ~ TruthyAttachment(a) THEN Display(site, FALSE, FALSE, <<>>, "none")
    ELSE LET name == IF site = "ticket" THEN ticket_file_name(a)
                     ELSE reply_file_name(a)
             exts == IF site = "admin" THEN AdminImageExtensions
                     ELSE ImageExtensions
         IN  IF a.type # "str" THEN Display(site, TRUE, FALSE, name, "none")
             ELSE Display(site, FALSE, TRUE, name,
                          IF is_image(a.chars, exts) THEN "image" ELSE "document")

(***************************************************************************)
(* The conversation: ordering, field resolution, rendering                 *)
(***************************************************************************)
\* line 506: x.get('created_at', x.get('timestamp', ''))
sort_key(x) ==
    IF x.created_at # MissingTs THEN x.created_at
    ELSE IF x.timestamp # MissingTs THEN x.timestamp
    ELSE EmptyTs

\* line 506: sorted() raises TypeError when it compares None with a key
sorted_raises(rs) == Len(rs) >= 2 /\ \E k \in DOMAIN rs : sort_key(rs[k]) = NullTs

\* sorted() is stable: x goes behind every element whose key is not larger
InsertByKey(x, srt) ==
    LET n == Cardinality({k \in DOMAIN srt : sort_key(srt[k]) <= sort_key(x)})
    IN  SubSeq(srt, 1, n) \o <<x>> \o SubSeq(srt, n + 1, Len(srt))

RECURSIVE SortByKey(_)
SortByKey(rs) ==
    IF rs = <<>> THEN <<>>
    ELSE InsertByKey(rs[Len(rs)], SortByKey(SubSeq(rs, 1, Len(rs) - 1)))

\* lines 505-508
sorted_replies(rs) == IF sorted_raises(rs) THEN rs ELSE SortByKey(rs)

\* lines 512, 700: reply.get('role') or reply.get('reply_type', 'user')
resolved_role(reply) ==
    IF reply.role \notin {Missing, Null, ""} THEN reply.role
    ELSE IF reply.reply_type = Missing THEN "user" ELSE reply.reply_type

\* lines 513, 701: reply.get('text') or reply.get('content', '')
resolved_text(reply) ==
    IF reply.text \notin {Missing, Null, ""} THEN reply.text
    ELSE IF reply.content = Missing THEN "" ELSE reply.content

\* str.title() of a role
Title(role) ==
    CASE role = "user" -> "User"
      [] role = "admin" -> "Admin"
      [] role = "ai" -> "Ai"
      [] role = "bot" -> "Bot"
      [] OTHER -> role

\* lines 817, 819: reply.get('role', 'user'), title-cased
ai_context_role(reply) ==
    Title(IF reply.role = Missing THEN "user" ELSE reply.role)

\* line 818: reply.get('text', '')
ai_context_text(reply) == IF reply.text = Missing THEN "" ELSE reply.text

\* lines 524-529, 703-708: the message bubble of a role, if it has one
message_bubble(role) ==
    IF role \in {"user", "ai", "admin"} THEN role ELSE "none"

Entry(id, role, text, bubble, attached) ==
    [id |-> id, role |-> role, text |-> text, bubble |-> bubble,
     attached |-> attached]

\* lines 510-575, 698-744: what one reply contributes to the page
reply_entry(reply, site) ==
    Entry(reply.id, resolved_role(reply), resolved_text(reply),
          message_bubble(resolved_role(reply)),
          display_attachment(reply.attachment_url, site).shown)

\* the rendering stops at the first reply whose attachment display raises
Rendering(rs, site) ==
    LET fails == {k \in DOMAIN rs :
                    display_attachment(rs[k].attachment_url, site).failed}
        n == IF fails = {} THEN Len(rs)
             ELSE CHOOSE k \in fails : \A j \in fails : k <= j
    IN  [site |-> site, failed |-> (fails # {}),
         out |-> [k \in 1 .. n |-> reply_entry(rs[k], site)]]

\* lines 496-575: the conversation of show_ticket_details
details_conversation(rs) == Rendering(sorted_replies(rs), "reply")

\* lines 695-744: the conversation of admin_panel
admin_conversation(rs) == Rendering(rs, "admin")

\* lines 812-819: the conversation context of "Generate AI Reply"
ai_conversation_context(rs) ==
    [site |-> "ai_context", failed |-> FALSE,
     out |-> [k \in DOMAIN rs |->
                Entry(rs[k].id, ai_context_role(rs[k]), ai_context_text(rs[k]),
                      "none", FALSE)]]

\* raw records whose timestamps vary
TimestampPairs ==
    ({MissingTs, NullTs, Unparseable} \cup (1 .. MaxTime)) \X {MissingTs, 1}

OrderInputs ==
    UNION {{[k \in 1 .. n |->
               Reply(k, "user", Missing, "hi", Missing, f[k][1], f[k][2],
                     NoAttachment)] :
            f \in [1 .. n -> TimestampPairs]} : n \in 0 .. MaxReplies}

\* raw records whose role, text and attachment fields vary
RoleFields ==
    {Missing, "admin", "bot"} \X {Missing, "ai"} \X {Missing, "hi"}
        \X {Missing, "yo"}
        \X {NoAttachment, IntValue, Str(<<"http://", "a", ".pdf">>)}

RoleInputs ==
    UNION {{[k \in 1 .. n |->
               Reply(k, f[k][1], f[k][2], f[k][3], f[k][4], MissingTs,
                     MissingTs, f[k][5])] :
            f \in [1 .. n -> RoleFields]} : n \in 1 .. MaxRoleReplies}

(***************************************************************************)
(* The reply form of show_ticket_details                                   *)
(***************************************************************************)
\* what can be typed into the text area: characters and blanks
ReplyTexts == BoundedSeq({" ", "x"}, MaxReplyLen)
\* line 586: the attached file, by name, or none
ReplyFiles == {Null, "a.png", "b.pdf"}

\* str.strip(): leading and trailing blanks removed
RECURSIVE strip(_)
strip(s) ==
    IF s = <<>> THEN <<>>
    ELSE IF Head(s) = " " THEN strip(Tail(s))
    ELSE IF s[Len(s)] = " " THEN strip(SubSeq(s, 1, Len(s) - 1))
    ELSE s

\* line 604: if new_reply.strip() or uploaded_file
reply_requested(text, file) == strip(text) # <<>> \/ file # Null

\* line 616, mutated: no placeholder for a blank text
reply_text_no_placeholder(text, file) == strip(text)

\* line 616: the stripped text, or the placeholder naming the file
reply_text(text, file) ==
    IF strip(text) # <<>> THEN strip(text)
    ELSE <<"Shared a file: ", IF file # Null THEN file ELSE "attachment">>

\* lines 617-624: role user; attachment_url only when the upload gave one
reply_data(text, file, attachment_url) ==
    [text |-> reply_text(text, file), role |-> "user",
     attachment_url |-> IF TruthyStr(attachment_url) THEN attachment_url
                        ELSE Missing]

UploadCall(file) == [ev |-> "req", kind |-> "upload", file |-> file]
UploadResult(url) == [ev |-> "ret", kind |-> "upload", url |-> url]
PostCall(data) == [ev |-> "req", kind |-> "post_reply", data |-> data]
PostResult(ok) == [ev |-> "ret", kind |-> "post_reply", ok |-> ok]

(***************************************************************************)
(* State of one run of create_ticket_page                                  *)
(***************************************************************************)
VARIABLES
    pc,             \* position of the page: form, create, upload, ai, email, done
    title, category, created_by, email, description,   \* submitted form fields
    uploaded_files, \* number of files selected in the form
    new_ticket,     \* value returned by create_ticket
    file_idx,       \* index of the file whose upload is in flight
    log,            \* requests issued and responses received, in order
    reports         \* messages shown to the user, in order

wfvars == <<pc, title, category, created_by, email, description,
            uploaded_files, new_ticket, file_idx, log, reports>>

(***************************************************************************)
(* State of the backend, of the admin panel and of fetch-by-id             *)
(***************************************************************************)
VARIABLES
    backend,        \* remote side: status of every ticket id, or Absent
    apc,            \* position of admin_panel: render (script run starts), shown
    tickets,        \* the tickets admin_panel displays: status per id, or Absent
    last_update,    \* the last update_ticket_status of this session that returned True
    intervened,     \* another client changed that ticket's status since
    fetched,        \* value returned by the last get_ticket_by_id
    fetch_req       \* what that call asked for, and what the backend held then

bevars == <<backend, apc, tickets, last_update, intervened, fetched, fetch_req>>

(***************************************************************************)
(* State of the admin session, of a single client call, of the             *)
(* conversation views, of the attachment display and of the reply form     *)
(***************************************************************************)
VARIABLES
    admin_authenticated, \* st.session_state['admin_authenticated']
    login_attempt,  \* the credentials of the last login submitted
    admin_op,       \* the last admin operation issued since the last login or logout
    call,           \* the last call of a client function: response and result
    replies,        \* the raw reply records of the ticket, in arrival order
    rendered,       \* what the last rendering of the conversation produced
    attachment,     \* the attachment_url value of the ticket or reply displayed
    resolved,       \* what the last display of that attachment produced
    rpc,            \* position of the reply form: form, upload, post, done
    new_reply,      \* text typed in the reply form
    uploaded_file,  \* whether a file is attached in the reply form
    reply_attachment_url, \* value returned by upload_file_via_api for it
    reply_log       \* requests issued and responses received by the reply form

authvars == <<admin_authenticated, login_attempt, admin_op>>
cvars == <<call>>
rvars == <<replies, rendered>>
uvars == <<attachment, resolved>>
fvars == <<rpc, new_reply, uploaded_file, reply_attachment_url, reply_log>>

vars == <<wfvars, bevars, authvars, cvars, rvars, uvars, fvars>>

Req(kind, file, ticket) ==
    [ev |-> "req", kind |-> kind, file |-> file, ticket |-> ticket,
     exc |-> FALSE, code |-> 0, ok |-> FALSE]

Ret(kind, file, ticket, resp, ok) ==
    [ev |-> "ret", kind |-> kind, file |-> file, ticket |-> ticket,
     exc |-> resp.exc, code |-> resp.code, ok |-> ok]

\* line 310: not all([title, category, description, created_by])
required_fields_filled_no_title(t, c, d, u) ==
    TruthyStr(c) /\ TruthyStr(d) /\ TruthyStr(u)

required_fields_filled(t, c, d, u) ==
    TruthyStr(t) /\ TruthyStr(c) /\ TruthyStr(d) /\ TruthyStr(u)

\* line 324: if new_ticket:
ticket_created_always(t) == TRUE

ticket_created(t) == TruthyObj(t)

\* lines 328-335: the step that follows a created ticket
step_after_create(n) ==
    IF n > 0 THEN [pc |-> "upload", file |-> 1] ELSE [pc |-> "ai", file |-> 0]

\* lines 329-335: the step that follows the upload of file i of n; the loop
\* goes on to the next file whatever upload_file_via_api returned
step_after_upload_abort(i, n, file_url) ==
    IF ~ TruthyStr(file_url) THEN [pc |-> "done", file |-> 0]
    ELSE IF i < n THEN [pc |-> "upload", file |-> i + 1]
    ELSE [pc |-> "ai", file |-> 0]

step_after_upload_retry(i, n, file_url) ==
    IF ~ TruthyStr(file_url) THEN [pc |-> "upload", file |-> i]
    ELSE IF i < n THEN [pc |-> "upload", file |-> i + 1]
    ELSE [pc |-> "ai", file |-> 0]

step_after_upload_break(i, n, file_url) == [pc |-> "ai", file |-> 0]

step_after_upload(i, n, file_url) ==
    IF i < n THEN [pc |-> "upload", file |-> i + 1] ELSE [pc |-> "ai", file |-> 0]

\* line 342: if email:
email_requested_always(e) == TRUE

email_requested(e) == TruthyStr(e)

\* lines 336-342: the step that follows the AI reply, whatever it returned
step_after_ai_abort(e, ai_response) ==
    IF TruthyObj(ai_response) /\ email_requested(e)
    THEN [pc |-> "email", file |-> 0] ELSE [pc |-> "done", file |-> 0]

step_after_ai(e, ai_response) ==
    IF email_requested(e)
    THEN [pc |-> "email", file |-> 0] ELSE [pc |-> "done", file |-> 0]

\* the request that opens step s, if s issues one
StepReq(s, id) ==
    IF s.pc = "done" THEN <<>>
    ELSE IF s.pc = "upload" THEN <<Req("upload", s.file, id)>>
    ELSE <<Req(s.pc, 0, id)>>

WfInit ==
    /\ pc = "form"
    /\ title = "" /\ category = "Technical" /\ created_by = ""
    /\ email = "" /\ description = ""
    /\ uploaded_files = 0
    /\ new_ticket = NoneVal
    /\ file_idx = 0
    /\ log = <<>>
    /\ reports = <<>>

\* lines 309-322: the form is submitted
Submit ==
    /\ pc \in {"form", "done"}
    /\ \E t \in TextInputs, c \in Categories, u \in TextInputs,
          e \in EmailInputs, d \in TextInputs, n \in 0 .. MaxFiles :
        /\ title' = t /\ category' = c /\ created_by' = u
        /\ email' = e /\ description' = d /\ uploaded_files' = n
        /\ new_ticket' = NoneVal
        /\ file_idx' = 0
        /\ IF ~ required_fields_filled(t, c, d, u)
           THEN /\ reports' = <<Msg("validation", 0, "error")>>
                /\ log' = <<>>
                /\ pc' = "done"
           ELSE /\ reports' = <<>>
                /\ log' = <<Req("create", 0, 0)>>
                /\ pc' = "create"

\* lines 322-335: create_ticket returns
CreateReturn ==
    /\ pc = "create"
    /\ \E resp \in CreateResponses :
        LET r == create_ticket(resp, 0)
            s == step_after_create(uploaded_files)
        IN  /\ new_ticket' = r.ret
            /\ IF ticket_created(r.ret)
               THEN /\ reports' = reports \o r.msgs
                                    \o <<Msg("create", 0, "success")>>
                    /\ log' = log \o <<Ret("create", 0, 0, resp, TRUE)>>
                                    \o StepReq(s, r.ret.id)
                    /\ pc' = s.pc
                    /\ file_idx' = s.file
               ELSE /\ reports' = reports \o r.msgs
                    /\ log' = log \o <<Ret("create", 0, 0, resp, FALSE)>>
                    /\ pc' = "done"
                    /\ file_idx' = 0
    /\ UNCHANGED <<title, category, created_by, email, description,
                   uploaded_files>>

\* lines 329-335: upload_file_via_api returns for file file_idx
UploadReturn ==
    /\ pc = "upload"
    /\ \E resp \in UploadResponses :
        LET r == upload_file_via_api(resp, file_idx)
            s == step_after_upload(file_idx, uploaded_files, r.ret)
        IN  /\ reports' = reports \o r.msgs
                  \o (IF TruthyStr(r.ret)
                      THEN <<Msg("upload", file_idx, "info")>> ELSE <<>>)
            /\ log' = log \o <<Ret("upload", file_idx, new_ticket.id, resp,
                                   TruthyStr(r.ret))>>
                            \o StepReq(s, new_ticket.id)
            /\ pc' = s.pc
            /\ file_idx' = s.file
    /\ UNCHANGED <<title, category, created_by, email, description,
                   uploaded_files, new_ticket>>

\* lines 335-348: generate_ai_reply returns
AIReturn ==
    /\ pc = "ai"
    /\ \E resp \in AIResponses :
        LET r == generate_ai_reply(resp, 0)
            s == step_after_ai(email, r.ret)
        IN  /\ reports' = reports \o r.msgs
                  \o (IF TruthyObj(r.ret)
                      THEN <<Msg("ai", 0, "info")>> ELSE <<>>)
            /\ log' = log \o <<Ret("ai", 0, new_ticket.id, resp,
                                   TruthyObj(r.ret))>>
                            \o StepReq(s, new_ticket.id)
            /\ pc' = s.pc
    /\ UNCHANGED <<title, category, created_by, email, description,
                   uploaded_files, new_ticket, file_idx>>

\* lines 348-349: send_email_via_api returns
EmailReturn ==
    /\ pc = "email"
    /\ \E resp \in EmailResponses :
        LET r == send_email_via_api(resp, 0)
        IN  /\ reports' = reports \o r.msgs
                  \o (IF r.ret THEN <<Msg("email", 0, "info")>> ELSE <<>>)
            /\ log' = log \o <<Ret("email", 0, new_ticket.id, resp, r.ret)>>
            /\ pc' = "done"
    /\ UNCHANGED <<title, category, created_by, email, description,
                   uploaded_files, new_ticket, file_idx>>

NoUpdate == [id |-> 0, status |-> Null]
NoFetch == [id |-> 0, present |-> FALSE, exc |-> FALSE]

BackendIdle ==
    /\ backend = NoTickets
    /\ apc = "render"
    /\ tickets = NoTickets
    /\ last_update = NoUpdate
    /\ intervened = FALSE
    /\ fetched = NoneVal
    /\ fetch_req = NoFetch

\* lines 644-645: the flag starts False
NoLogin == [username |-> Null, password |-> Null]
NoOp == [kind |-> "none", id |-> 0, authenticated |-> FALSE]

AuthIdle ==
    /\ admin_authenticated = FALSE
    /\ login_attempt = NoLogin
    /\ admin_op = NoOp

NoCall == [op |-> "none", exc |-> FALSE, code |-> 0, success |-> FALSE,
           payload |-> FALSE, failure |-> FALSE, ambiguous |-> FALSE,
           cause |-> FALSE]
NoRendering == [site |-> "none", failed |-> FALSE, out |-> <<>>]
NoDisplay == [site |-> "none", failed |-> FALSE, shown |-> FALSE,
              file_name |-> <<>>, kind |-> "none"]

ViewsIdle ==
    /\ call = NoCall
    /\ replies = <<>>
    /\ rendered = NoRendering
    /\ attachment = NoAttachment
    /\ resolved = NoDisplay
    /\ rpc = "form"
    /\ new_reply = <<>>
    /\ uploaded_file = Null
    /\ reply_attachment_url = Null
    /\ reply_log = <<>>

Init == WfInit /\ BackendIdle /\ AuthIdle /\ ViewsIdle

Next ==
    \/ Submit /\ UNCHANGED <<bevars, authvars, cvars, rvars, uvars, fvars>>
    \/ CreateReturn /\ UNCHANGED <<bevars, authvars, cvars, rvars, uvars, fvars>>
    \/ UploadReturn /\ UNCHANGED <<bevars, authvars, cvars, rvars, uvars, fvars>>
    \/ AIReturn /\ UNCHANGED <<bevars, authvars, cvars, rvars, uvars, fvars>>
    \/ EmailReturn /\ UNCHANGED <<bevars, authvars, cvars, rvars, uvars, fvars>>

Spec == Init /\ [][Next]_vars

(***************************************************************************)
(* admin_panel: the ticket list and the status update                      *)
(***************************************************************************)
\* line 654: the shared credentials
AdminCredentials == [username |-> "admin", password |-> "admin"]
LoginInputs == {"admin", "Admin", ""}

\* line 654
credentials_ok(username, password) == username = "admin" /\ password = "admin"

\* line 647, mutated: the dashboard is shown whatever the flag says
admin_gate_open_always(flag) == TRUE

\* line 647: the dashboard is reached only when the flag is set
admin_gate_open(flag) == flag

AdminOp(kind, id) ==
    [kind |-> kind, id |-> id, authenticated |-> admin_authenticated]

\* lines 644-686: a script run: without the flag it shows the login form and
\* returns, with it it fetches all tickets and displays them.  admin_op is
\* the operation issued by the run whose page is displayed.
AdminRender ==
    /\ apc = "render"
    /\ IF admin_gate_open(admin_authenticated)
       THEN /\ \E resp \in GetAllResponses(backend) :
                  tickets' = get_all_tickets(resp).ret
            /\ apc' = "shown"
       ELSE /\ tickets' = NoTickets
            /\ apc' = "login"
    /\ admin_op' = NoOp
    /\ UNCHANGED <<backend, last_update, intervened, fetched, fetch_req,
                   admin_authenticated, login_attempt>>

\* lines 653-659: the login form is submitted
AdminLogin ==
    /\ apc = "login"
    /\ \E username \in LoginInputs, password \in LoginInputs :
        /\ login_attempt' = [username |-> username, password |-> password]
        /\ IF credentials_ok(username, password)
           THEN admin_authenticated' = TRUE /\ apc' = "render"
           ELSE UNCHANGED <<admin_authenticated, apc>>
    /\ UNCHANGED <<backend, tickets, last_update, intervened, fetched,
                   fetch_req, admin_op>>

\* line 663: the Logout button of the dashboard; its callback clears the
\* flag and the script reruns
AdminLogout ==
    /\ apc = "shown"
    /\ admin_authenticated' = FALSE
    /\ apc' = "render"
    /\ admin_op' = NoOp
    /\ UNCHANGED <<backend, tickets, last_update, intervened, fetched,
                   fetch_req, login_attempt>>

\* line 755: what follows update_ticket_status: a rerun when it returned True
after_update(updated) == IF updated THEN "render" ELSE "shown"

\* lines 748-755: "Update Status" is clicked for a displayed ticket
UpdateStatusClick ==
    /\ apc = "shown"
    /\ \E id \in TicketIds, new_status \in Statuses :
        /\ tickets[id] # Absent
        /\ admin_op' = AdminOp("status", id)
        /\ \E o \in PatchStatusOutcomes(backend,
                                        status_patch_request(id, new_status)) :
            LET r == update_ticket_status(o.resp, 0)
            IN  /\ backend' = o.backend
                /\ apc' = after_update(r.ret)
                /\ IF r.ret
                   THEN /\ last_update' = [id |-> id, status |-> new_status]
                        /\ intervened' = FALSE
                   ELSE UNCHANGED <<last_update, intervened>>
    /\ UNCHANGED <<tickets, fetched, fetch_req, admin_authenticated,
                   login_attempt>>

\* lines 778-805: "Send Reply" of the admin form of a displayed ticket: the
\* upload, if a file is attached, then the reply with role admin; a rerun
\* when the reply was posted; a warning and no call without text and file
AdminSendReply ==
    /\ apc = "shown"
    /\ \E id \in TicketIds, admin_reply \in {"", "x"}, admin_file \in BOOLEAN,
          up \in UploadResponses, resp \in AddReplyResponses :
        /\ tickets[id] # Absent
        /\ IF TruthyStr(admin_reply) \/ admin_file
           THEN /\ admin_op' = AdminOp("reply", id)
                /\ apc' = IF TruthyObj(add_reply_via_api(resp, 0).ret)
                          THEN "render" ELSE "shown"
           ELSE UNCHANGED <<admin_op, apc>>
    /\ UNCHANGED <<backend, tickets, last_update, intervened, fetched,
                   fetch_req, admin_authenticated, login_attempt>>

\* lines 808-828: "Generate AI Reply" of a displayed ticket; a rerun when
\* generate_ai_reply returned a reply
AdminGenerateAIReply ==
    /\ apc = "shown"
    /\ \E id \in TicketIds, resp \in AIResponses :
        /\ tickets[id] # Absent
        /\ admin_op' = AdminOp("ai", id)
        /\ apc' = IF TruthyObj(generate_ai_reply(resp, 0).ret)
                  THEN "render" ELSE "shown"
    /\ UNCHANGED <<backend, tickets, last_update, intervened, fetched,
                   fetch_req, admin_authenticated, login_attempt>>

\* another interaction with the page starts a new script run
AdminRefresh ==
    /\ apc = "shown"
    /\ apc' = "render"
    /\ UNCHANGED <<backend, tickets, last_update, intervened, fetched,
                   fetch_req, authvars>>

\* another client of the backend changes the status of a ticket
OtherClientUpdate ==
    /\ \E id \in TicketIds, st \in Statuses :
        /\ backend[id] # Absent
        /\ backend[id] # st
        /\ backend' = [backend EXCEPT ![id] = st]
        /\ intervened' = (intervened \/ last_update.id = id)
    /\ UNCHANGED <<apc, tickets, last_update, fetched, fetch_req, authvars>>

AdminInit ==
    /\ WfInit
    /\ backend \in [TicketIds -> Statuses \cup {Absent}]
    /\ apc = "render"
    /\ tickets = NoTickets
    /\ last_update = NoUpdate
    /\ intervened = FALSE
    /\ fetched = NoneVal
    /\ fetch_req = NoFetch
    /\ AuthIdle /\ ViewsIdle

AdminRest == <<wfvars, cvars, rvars, uvars, fvars>>

AdminNext ==
    \/ AdminRender /\ UNCHANGED AdminRest
    \/ AdminLogin /\ UNCHANGED AdminRest
    \/ AdminLogout /\ UNCHANGED AdminRest
    \/ UpdateStatusClick /\ UNCHANGED AdminRest
    \/ AdminSendReply /\ UNCHANGED AdminRest
    \/ AdminGenerateAIReply /\ UNCHANGED AdminRest
    \/ AdminRefresh /\ UNCHANGED AdminRest
    \/ OtherClientUpdate /\ UNCHANGED AdminRest

SpecAdmin == AdminInit /\ [][AdminNext]_vars

(***************************************************************************)
(* get_ticket_by_id against a backend whose tickets come and change        *)
(***************************************************************************)
\* lines 52-62: fetch-by-id of any identifier
FetchById ==
    /\ \E id \in TicketIds :
        \E resp \in GetTicketResponses(backend, id) :
            /\ fetched' = get_ticket_by_id(resp, 0).ret
            /\ fetch_req' = [id |-> id, present |-> backend[id] # Absent,
                             exc |-> resp.exc]
    /\ UNCHANGED <<backend, apc, tickets, last_update, intervened>>

\* a client of the backend creates a ticket: the server assigns a free id
BackendCreate ==
    /\ \E id \in TicketIds :
        /\ backend[id] = Absent
        /\ backend' = [backend EXCEPT ![id] = "Open"]
    /\ UNCHANGED <<apc, tickets, last_update, intervened, fetched, fetch_req>>

FetchInit ==
    /\ WfInit
    /\ backend \in [TicketIds -> {"Open", Absent}]
    /\ apc = "render"
    /\ tickets = NoTickets
    /\ last_update = NoUpdate
    /\ intervened = FALSE
    /\ fetched = NoneVal
    /\ fetch_req = NoFetch
    /\ AuthIdle /\ ViewsIdle

FetchNext ==
    \/ FetchById /\ UNCHANGED <<wfvars, authvars, cvars, rvars, uvars, fvars>>
    \/ BackendCreate /\ UNCHANGED <<wfvars, authvars, cvars, rvars, uvars, fvars>>
    \/ OtherClientUpdate /\ UNCHANGED <<wfvars, authvars, cvars, rvars, uvars, fvars>>

SpecFetch == FetchInit /\ [][FetchNext]_vars

(***************************************************************************)
(* The client functions, each called on every response of its endpoint     *)
(***************************************************************************)
Backends == [TicketIds -> Statuses \cup {Absent}]

\* the response is one the function recognizes as a success
Recognized(resp, codes) == ~ resp.exc /\ resp.code \in codes

CallOf(op, resp, codes, payload, failure, ambiguous, msgs) ==
    [op |-> op, exc |-> resp.exc, code |-> resp.code,
     success |-> Recognized(resp, codes),
     payload |-> payload, failure |-> failure, ambiguous |-> ambiguous,
     cause |-> (msgs # <<>>)]

CallGetAllTickets ==
    \E resp \in GetAllResponses(backend) :
        LET r == get_all_tickets(resp)
        IN  call' = CallOf("get_all_tickets", resp, {200},
                           r.ret = resp.list, r.ret = NoTickets,
                           r.ret \in {get_all_tickets(ListResp(200, b)).ret :
                                        b \in Backends},
                           r.msgs)

CallGetTicketById ==
    \E id \in TicketIds :
        \E resp \in GetTicketResponses(backend, id) :
            LET r == get_ticket_by_id(resp, 0)
            IN  call' = CallOf("get_ticket_by_id", resp, {200},
                               r.ret = resp.body, r.ret = NoneVal,
                               r.ret \in {get_ticket_by_id(
                                              Resp(200, TicketObj(i, st)), 0).ret :
                                            i \in TicketIds, st \in Statuses},
                               r.msgs)

CallGetTicketReplies ==
    \E resp \in RepliesResponses :
        LET r == get_ticket_replies(resp)
        IN  call' = CallOf("get_ticket_replies", resp, {200},
                           r.ret = resp.list, r.ret = <<>>,
                           r.ret \in {get_ticket_replies(ListResp(200, l)).ret :
                                        l \in ReplyLists},
                           r.msgs)

CallCreateTicket ==
    \E resp \in CreateResponses :
        LET r == create_ticket(resp, 0)
        IN  call' = CallOf("create_ticket", resp, {200, 201},
                           r.ret = resp.body, r.ret = NoneVal,
                           r.ret \in {create_ticket(x, 0).ret :
                                        x \in {y \in CreateResponses :
                                                 Recognized(y, {200, 201})}},
                           r.msgs)

CallUpdateTicketStatus ==
    \E id \in TicketIds, st \in Statuses :
        \E o \in PatchStatusOutcomes(backend, status_patch_request(id, st)) :
            LET r == update_ticket_status(o.resp, 0)
            IN  /\ call' = CallOf("update_ticket_status", o.resp, {200},
                                  r.ret = TRUE, r.ret = FALSE, r.ret = TRUE,
                                  r.msgs)
                /\ backend' = o.backend

CallAddReply ==
    \E resp \in AddReplyResponses :
        LET r == add_reply_via_api(resp, 0)
        IN  call' = CallOf("add_reply_via_api", resp, {200},
                           r.ret = resp.body, r.ret = NoneVal,
                           r.ret \in {add_reply_via_api(x, 0).ret :
                                        x \in {y \in AddReplyResponses :
                                                 Recognized(y, {200})}},
                           r.msgs)

CallUploadFile ==
    \E resp \in UploadResponses :
        LET r == upload_file_via_api(resp, 0)
        IN  call' = CallOf("upload_file_via_api", resp, {200},
                           r.ret \in {resp.signed_url, resp.attachment_url}
                              /\ TruthyStr(r.ret),
                           r.ret = Null,
                           r.ret \in {upload_file_via_api(x, 0).ret :
                                        x \in {y \in UploadResponses :
                                                 Recognized(y, {200})}},
                           r.msgs)

CallGenerateAIReply ==
    \E resp \in AIResponses :
        LET r == generate_ai_reply(resp, 0)
        IN  call' = CallOf("generate_ai_reply", resp, {200},
                           r.ret = resp.body, r.ret = NoneVal,
                           r.ret \in {generate_ai_reply(x, 0).ret :
                                        x \in {y \in AIResponses :
                                                 Recognized(y, {200})}},
                           r.msgs)

CallSendEmail ==
    \E resp \in EmailResponses :
        LET r == send_email_via_api(resp, 0)
        IN  call' = CallOf("send_email_via_api", resp, {200},
                           r.ret = TRUE, r.ret = FALSE, r.ret = TRUE, r.msgs)

ClientInit ==
    /\ WfInit
    /\ backend \in Backends
    /\ apc = "render"
    /\ tickets = NoTickets
    /\ last_update = NoUpdate
    /\ intervened = FALSE
    /\ fetched = NoneVal
    /\ fetch_req = NoFetch
    /\ AuthIdle /\ ViewsIdle

ClientRest ==
    <<wfvars, apc, tickets, last_update, intervened, fetched, fetch_req,
      authvars, rvars, uvars, fvars>>

ClientNext ==
    \/ CallGetAllTickets /\ UNCHANGED <<backend, ClientRest>>
    \/ CallGetTicketById /\ UNCHANGED <<backend, ClientRest>>
    \/ CallGetTicketReplies /\ UNCHANGED <<backend, ClientRest>>
    \/ CallCreateTicket /\ UNCHANGED <<backend, ClientRest>>
    \/ CallUpdateTicketStatus /\ UNCHANGED ClientRest
    \/ CallAddReply /\ UNCHANGED <<backend, ClientRest>>
    \/ CallUploadFile /\ UNCHANGED <<backend, ClientRest>>
    \/ CallGenerateAIReply /\ UNCHANGED <<backend, ClientRest>>
    \/ CallSendEmail /\ UNCHANGED <<backend, ClientRest>>

SpecClient == ClientInit /\ [][ClientNext]_vars

(***************************************************************************)
(* The display of an attachment: ticket attachment and reply attachment of *)
(* show_ticket_details, reply attachment of admin_panel                    *)
(***************************************************************************)
\* lines 436-493
ShowTicketAttachment ==
    /\ resolved' = display_attachment(attachment, "ticket")
    /\ UNCHANGED attachment

\* lines 532-572
ShowReplyAttachment ==
    /\ resolved' = display_attachment(attachment, "reply")
    /\ UNCHANGED attachment

\* lines 711-744
AdminShowAttachment ==
    /\ resolved' = display_attachment(attachment, "admin")
    /\ UNCHANGED attachment

AttachmentInit ==
    /\ WfInit /\ BackendIdle /\ AuthIdle
    /\ call = NoCall
    /\ replies = <<>>
    /\ rendered = NoRendering
    /\ attachment \in AttachmentValues
    /\ resolved = NoDisplay
    /\ rpc = "form"
    /\ new_reply = <<>>
    /\ uploaded_file = Null
    /\ reply_attachment_url = Null
    /\ reply_log = <<>>

AttachmentRest == <<wfvars, bevars, authvars, cvars, rvars, fvars>>

AttachmentNext ==
    \/ ShowTicketAttachment /\ UNCHANGED AttachmentRest
    \/ ShowReplyAttachment /\ UNCHANGED AttachmentRest
    \/ AdminShowAttachment /\ UNCHANGED AttachmentRest

SpecAttachment == AttachmentInit /\ [][AttachmentNext]_vars

(***************************************************************************)
(* The three places that read the reply records of a ticket                *)
(***************************************************************************)
\* lines 496-575
ShowConversation ==
    /\ rendered' = details_conversation(replies)
    /\ UNCHANGED replies

\* lines 695-744
AdminShowConversation ==
    /\ rendered' = admin_conversation(replies)
    /\ UNCHANGED replies

\* lines 812-819
AdminBuildAIContext ==
    /\ rendered' = ai_conversation_context(replies)
    /\ UNCHANGED replies

ConversationInit ==
    /\ WfInit /\ BackendIdle /\ AuthIdle
    /\ call = NoCall
    /\ replies \in OrderInputs \cup RoleInputs
    /\ rendered = NoRendering
    /\ attachment = NoAttachment
    /\ resolved = NoDisplay
    /\ rpc = "form"
    /\ new_reply = <<>>
    /\ uploaded_file = Null
    /\ reply_attachment_url = Null
    /\ reply_log = <<>>

ConversationRest == <<wfvars, bevars, authvars, cvars, uvars, fvars>>

ConversationNext ==
    \/ ShowConversation /\ UNCHANGED ConversationRest
    \/ AdminShowConversation /\ UNCHANGED ConversationRest
    \/ AdminBuildAIContext /\ UNCHANGED ConversationRest

SpecConversation == ConversationInit /\ [][ConversationNext]_vars

(***************************************************************************)
(* Sending a reply from the ticket details view                            *)
(***************************************************************************)
\* lines 603-609, 635: "Send Reply" is pressed.  Without text and file a
\* warning is shown; with a file the upload is issued first; otherwise the
\* reply is posted.
ReplySubmit ==
    /\ rpc = "form"
    /\ \E text \in ReplyTexts, file \in ReplyFiles :
        /\ new_reply' = text
        /\ uploaded_file' = file
        /\ IF ~ reply_requested(text, file)
           THEN rpc' = "done" /\ reply_log' = reply_log
           ELSE IF file # Null
           THEN /\ rpc' = "upload"
                /\ reply_log' = Append(reply_log, UploadCall(file))
           ELSE /\ rpc' = "post"
                /\ reply_log' =
                      Append(reply_log, PostCall(reply_data(text, file, Null)))
    /\ UNCHANGED reply_attachment_url

\* lines 609-626: the upload returns; the reply is posted whatever it gave
ReplyUploadReturn ==
    /\ rpc = "upload"
    /\ \E resp \in UploadResponses :
        LET url == upload_file_via_api(resp, 0).ret
        IN  /\ reply_attachment_url' = url
            /\ reply_log' = reply_log \o
                  <<UploadResult(url),
                    PostCall(reply_data(new_reply, uploaded_file, url))>>
    /\ rpc' = "post"
    /\ UNCHANGED <<new_reply, uploaded_file>>

\* lines 626-633: the post-reply request returns
ReplyPostReturn ==
    /\ rpc = "post"
    /\ \E resp \in AddReplyResponses :
          reply_log' = Append(reply_log,
                          PostResult(TruthyObj(add_reply_via_api(resp, 0).ret)))
    /\ rpc' = "done"
    /\ UNCHANGED <<new_reply, uploaded_file, reply_attachment_url>>

\* lines 631, 637: the script reruns and shows an empty form
ReplyRerun ==
    /\ rpc = "done"
    /\ rpc' = "form"
    /\ new_reply' = <<>>
    /\ uploaded_file' = Null
    /\ reply_attachment_url' = Null
    /\ reply_log' = <<>>

ReplyInit ==
    /\ WfInit /\ BackendIdle /\ AuthIdle /\ ViewsIdle

ReplyRest == <<wfvars, bevars, authvars, cvars, rvars, uvars>>

ReplyNext ==
    \/ ReplySubmit /\ UNCHANGED ReplyRest
    \/ ReplyUploadReturn /\ UNCHANGED ReplyRest
    \/ ReplyPostReturn /\ UNCHANGED ReplyRest
    \/ ReplyRerun /\ UNCHANGED ReplyRest

SpecReply == ReplyInit /\ [][ReplyNext]_vars

(***************************************************************************)
(* Properties of the ticket-creation workflow                              *)
(***************************************************************************)
Reqs(kind) == {k \in DOMAIN log : log[k].ev = "req" /\ log[k].kind = kind}
Rets(kind) == {k \in DOMAIN log : log[k].ev = "ret" /\ log[k].kind = kind}
UploadReqs(i) == {k \in Reqs("upload") : log[k].file = i}
UploadRets(i) == {k \in Rets("upload") : log[k].file = i}

\* the create response was a failure: transport error or a code other than
\* 200/201
CreateFailed ==
    \E k \in Rets("create") : log[k].exc \/ log[k].code \notin {200, 201}
\* create_ticket returned a ticket
CreateSucceeded ==
    \E k \in Rets("create") : ~ log[k].exc /\ log[k].code \in {200, 201}
CreatedReported ==
    \E m \in DOMAIN reports : reports[m] = Msg("create", 0, "success")

\* C1: when the create step fails (non-200/201 response or transport
\* error) the run issues no attachment upload, no AI-reply request and no
\* send-email request: the create request stays the only remote call.
C1_CreateFailureAborts ==
    CreateFailed =>
        /\ ~ TruthyObj(new_ticket)
        /\ Reqs("upload") = {} /\ Reqs("ai") = {} /\ Reqs("email") = {}
        /\ pc = "done"

C1_Witness ==
    /\ CreateFailed /\ pc = "done"
    /\ uploaded_files > 0 /\ TruthyStr(email)

\* C2: when create succeeded and an attachment upload failed (non-200
\* response, transport error or no URL returned), the ticket is reported as
\* created, and once the run is over the AI-reply request has been issued
\* and, if a contact address was supplied, the send-email request too.
C2_UploadFailureNotFatal ==
    (\E k \in Rets("upload") : ~ log[k].ok) =>
        /\ CreateSucceeded /\ CreatedReported
        /\ pc \in {"upload", "ai", "email", "done"}
        /\ pc \in {"ai", "email", "done"} => Cardinality(Reqs("ai")) = 1
        /\ pc = "done" =>
              (TruthyStr(email) => Cardinality(Reqs("email")) = 1)

C2_Witness ==
    /\ pc = "done" /\ TruthyStr(email)
    /\ \E k \in Rets("upload") : ~ log[k].ok /\ log[k].code = 200
    /\ \E k \in Rets("upload") : log[k].exc
    /\ Reqs("ai") # {} /\ Reqs("email") # {}

\* C3: after create succeeded every selected file gets exactly one upload
\* attempt, whatever the outcome of the other uploads: never more than one
\* attempt per file (no retry), a file is attempted as soon as the files
\* before it have returned, and all N files have been attempted when the
\* AI-reply request is issued.
C3_EachFileUploadedOnce ==
    /\ \A i \in 1 .. MaxFiles + 1 :
          /\ Cardinality(UploadReqs(i)) <= 1
          /\ UploadReqs(i) # {} => i <= uploaded_files
    /\ \A i \in 1 .. uploaded_files :
          (UploadRets(i) # {} /\ i < uploaded_files)
              => Cardinality(UploadReqs(i + 1)) = 1
    /\ (CreateSucceeded /\ pc \in {"ai", "email", "done"}) =>
          \A i \in 1 .. uploaded_files :
              Cardinality(UploadReqs(i)) = 1 /\ Cardinality(UploadRets(i)) = 1

C3_Witness ==
    /\ pc = "done" /\ uploaded_files = MaxFiles
    /\ \E k \in UploadRets(1) : ~ log[k].ok
    /\ \E k \in UploadRets(MaxFiles) : log[k].ok

StepRank(kind) ==
    CASE kind = "create" -> 1
      [] kind = "upload" -> 2
      [] kind = "ai" -> 3
      [] kind = "email" -> 4
      [] OTHER -> 0

\* C4: the remote calls of one run occur in the order create, uploads in
\* file order, AI reply, email; each request is answered before the next one
\* is issued; no upload is issued before create returned a ticket, the
\* AI-reply request is issued after the last upload has returned and the
\* email request after the AI-reply request has returned.
C4_StrictStepOrder ==
    /\ \A k \in DOMAIN log :
          /\ log[k].ev = (IF k % 2 = 1 THEN "req" ELSE "ret")
          /\ (k % 2 = 0) =>
                log[k].kind = log[k - 1].kind /\ log[k].file = log[k - 1].file
    /\ \A j, k \in DOMAIN log :
          j < k =>
            /\ StepRank(log[j].kind) <= StepRank(log[k].kind)
            /\ (log[j].kind = "upload" /\ log[k].kind = "upload")
                  => log[j].file <= log[k].file
    /\ \A k \in Reqs("upload") :
          \E j \in Rets("create") : j < k /\ log[j].ok /\ log[j].code \in {200, 201}
    /\ \A k \in Reqs("ai") :
          /\ \E j \in Rets("create") : j < k /\ log[j].ok
          /\ \A i \in 1 .. uploaded_files : \E j \in UploadRets(i) : j < k
    /\ \A k \in Reqs("email") : \E j \in Rets("ai") : j < k

C4_Witness ==
    /\ pc = "done" /\ uploaded_files = MaxFiles
    /\ Len(log) = 2 * (MaxFiles + 3)
    /\ log[Len(log)].kind = "email"

\* C5: once create succeeded the AI-reply request is issued exactly once,
\* with or without files and whatever the upload outcomes; when it fails the
\* email step still runs if an address was supplied, the ticket stays
\* created, and no call other than create, upload, AI reply and email is
\* ever issued (nothing deletes the ticket).
C5_AIReplyOnceNeverFatal ==
    /\ Cardinality(Reqs("ai")) <= 1
    /\ (CreateSucceeded /\ pc \in {"ai", "email", "done"})
          => Cardinality(Reqs("ai")) = 1
    /\ (\E k \in Rets("ai") : ~ log[k].ok) =>
          /\ TruthyObj(new_ticket) /\ CreatedReported
          /\ TruthyStr(email) => Cardinality(Reqs("email")) = 1
    /\ \A k \in DOMAIN log : log[k].kind \in {"create", "upload", "ai", "email"}

C5_Witness ==
    /\ pc = "done" /\ TruthyStr(email) /\ uploaded_files = 0
    /\ \E k \in Rets("ai") : ~ log[k].ok
    /\ Reqs("email") # {}

\* C6: the send-email request is issued if and only if create succeeded and
\* a non-empty contact address was supplied, at most once, for the id of the
\* ticket just created; when it fails the run still ends with the ticket
\* created.
C6_EmailOnlyWithAddress ==
    /\ Cardinality(Reqs("email")) <= 1
    /\ \A k \in Reqs("email") :
          /\ CreateSucceeded /\ TruthyStr(email)
          /\ log[k].ticket = new_ticket.id /\ new_ticket.id \in TicketIds
    /\ (pc = "done" /\ CreateSucceeded /\ TruthyStr(email))
          => Cardinality(Reqs("email")) = 1
    /\ (\E k \in Rets("email") : ~ log[k].ok) =>
          pc = "done" /\ TruthyObj(new_ticket) /\ CreatedReported

C6_Witness ==
    /\ pc = "done"
    /\ \E k \in Rets("email") : ~ log[k].ok /\ log[k].ticket = MaxTicketId

C6_WitnessNoAddress ==
    pc = "done" /\ CreateSucceeded /\ ~ TruthyStr(email)

\* C7: every step the run attempted and that has returned has its own
\* outcome shown to the user: a success message when it succeeded, an error
\* message when it failed (non-success code, transport error, or a 200 upload
\* response without URL).
C7_EveryStepOutcomeReported ==
    \A k \in DOMAIN log :
        log[k].ev = "ret" =>
            \E m \in DOMAIN reports :
                /\ reports[m].step = log[k].kind
                /\ reports[m].file = log[k].file
                /\ reports[m].level =
                      (IF log[k].ok
                       THEN (IF log[k].kind = "create" THEN "success" ELSE "info")
                       ELSE "error")

\* C8: a form submitted with title, description, category or created_by
\* empty shows a validation error and issues no remote call; with all four
\* filled the create request is issued first.
C8_ValidationBeforeTransmission ==
    pc # "form" =>
        IF title = "" \/ description = "" \/ category = "" \/ created_by = ""
        THEN /\ log = <<>>
             /\ reports = <<Msg("validation", 0, "error")>>
             /\ pc = "done"
        ELSE /\ Len(log) >= 1
             /\ log[1] = Req("create", 0, 0)
             /\ \A m \in DOMAIN reports : reports[m].step # "validation"

C8_Witness ==
    /\ pc = "done" /\ log = <<>>
    /\ title = "" /\ description # "" /\ created_by # ""
    /\ uploaded_files > 0 /\ TruthyStr(email)

C8_WitnessFilled ==
    pc = "create" /\ title # "" /\ description # "" /\ created_by # ""

(***************************************************************************)
(* Properties of the status update and of fetch-by-id                      *)
(***************************************************************************)
\* C9: after update_ticket_status(id, s) returned True (for "Closed" as for
\* any status), with no status update of that ticket by anyone since, every
\* view the admin panel displays comes from a fetch made after the update
\* and shows the ticket with status s; the page is never left displaying
\* the list fetched before the update.
C9_StatusVisibleAfterUpdate ==
    (last_update # NoUpdate /\ ~ intervened) =>
        /\ backend[last_update.id] = last_update.status
        /\ apc = "shown" =>
              tickets[last_update.id] \in {last_update.status, Absent}
        /\ (apc = "shown" /\ tickets # NoTickets) =>
              tickets[last_update.id] = last_update.status

C9_Witness ==
    /\ apc = "shown" /\ ~ intervened
    /\ last_update = [id |-> 1, status |-> "Closed"]
    /\ tickets[1] = "Closed"

\* C10: get_ticket_by_id of an identifier the backend does not hold returns
\* None, never an object; so does a call whose transport failed; an object it
\* returns is the ticket asked for.
C10_FetchAbsentFails ==
    /\ (fetch_req # NoFetch /\ ~ fetch_req.present) => fetched = NoneVal
    /\ fetch_req.exc => fetched = NoneVal
    /\ fetched # NoneVal =>
          /\ fetched.tag = "ticket" /\ fetched.id = fetch_req.id
          /\ fetched.status \in Statuses

C10_Witness ==
    fetch_req = [id |-> 1, present |-> FALSE, exc |-> FALSE] /\ fetched = NoneVal

C10_WitnessTransport ==
    fetch_req.present /\ fetch_req.exc /\ fetched = NoneVal

(***************************************************************************)
(* Properties of the client functions                                      *)
(***************************************************************************)
\* C11: every client function returns the decoded payload on a response it
\* recognizes as a success; on any other code or on a transport failure it
\* returns its failure value, that value is none of its success results,
\* and it shows a message that names the cause.
C11_TypedFailureResults ==
    call.op # "none" =>
        /\ call.success => call.payload
        /\ ~ call.success =>
              call.failure /\ ~ call.ambiguous /\ call.cause

(***************************************************************************)
(* Properties of the attachment display                                    *)
(***************************************************************************)
RECURSIVE C15_BeforeFirst(_, _)
C15_BeforeFirst(c, t) ==
    IF c = <<>> \/ Head(c) = t THEN <<>>
    ELSE <<Head(c)>> \o C15_BeforeFirst(Tail(c), t)

RECURSIVE C15_LastSegment(_)
C15_LastSegment(c) ==
    IF \E k \in DOMAIN c : c[k] \in {"/", "http://"}
    THEN C15_LastSegment(Tail(c))
    ELSE c

RECURSIVE C15_Split(_)
C15_Split(c) ==
    IF \E k \in DOMAIN c : c[k] = "_"
    THEN <<C15_BeforeFirst(c, "_")>>
            \o C15_Split(SubSeq(c, Len(C15_BeforeFirst(c, "_")) + 2, Len(c)))
    ELSE <<c>>

RECURSIVE C15_Join(_)
C15_Join(parts) ==
    IF Len(parts) = 1 THEN parts[1]
    ELSE parts[1] \o <<"_">> \o C15_Join(Tail(parts))

C15_Recognized(part) ==
    \E k \in DOMAIN part :
        Lower(part[k]) \in {".png", ".jpg", ".jpeg", ".gif", ".webp", ".bmp",
                            ".svg", ".pdf", ".txt", ".doc", ".xlsx"}

C15_Decode(name) ==
    [k \in DOMAIN name |->
        CASE name[k] = "%20" -> " " [] name[k] = "%2B" -> "+" [] OTHER -> name[k]]

C15_ClaimedName(c) ==
    LET seg == C15_LastSegment(C15_BeforeFirst(c, "?"))
        parts == C15_Split(seg)
        hits == {i \in DOMAIN parts : C15_Recognized(parts[i])}
    IN  C15_Decode(
            IF Len(parts) >= 3
            THEN IF hits # {}
                 THEN C15_Join(SubSeq(parts,
                                      CHOOSE i \in hits : \A j \in hits : i <= j,
                                      Len(parts)))
                 ELSE parts[Len(parts)]
            ELSE seg)

\* C15: for every attachment URL displayed, the file name shown is the last
\* '/'-segment of the URL before its first '?', cut down to the parts from
\* the first one with a recognized extension (the last part when none has
\* one) when it has 3 or more '_'-separated parts, with %20 and %2B
\* replaced; the ticket-level, the reply-level and the admin-panel resolver
\* all show that same name.
C15_ResolversAgree ==
    (resolved.site # "none" /\ attachment.type = "str" /\ attachment.chars # <<>>)
        => resolved.file_name = C15_ClaimedName(attachment.chars)

\* C16: an attachment is displayed as image if and only if its lowercased
\* URL contains one of .png, .jpg, .jpeg, .gif, .webp, .bmp, .svg, and as
\* document otherwise, at the ticket attachment, at the reply attachment of
\* the details view and at the reply attachment of the admin panel alike.
C16_SameClassificationEverywhere ==
    (resolved.site # "none" /\ attachment.type = "str" /\ attachment.chars # <<>>)
        => resolved.kind =
              (IF \E k \in DOMAIN attachment.chars :
                      Lower(attachment.chars[k]) \in
                          {".png", ".jpg", ".jpeg", ".gif", ".webp", ".bmp", ".svg"}
               THEN "image" ELSE "document")

\* C17: the display of an attachment_url value that cannot be parsed (an
\* empty string or a value that is no string) never fails: whatever it shows
\* for the value is the file name "attachment" with kind document, and the
\* rendering goes on.
C17_ParseFailureAbsorbed ==
    (resolved.site # "none"
        /\ (attachment.type = "int"
              \/ (attachment.type = "str" /\ attachment.chars = <<>>)))
        => /\ ~ resolved.failed
           /\ resolved.shown =>
                 resolved.file_name = <<"attachment">> /\ resolved.kind = "document"

(***************************************************************************)
(* Properties of the conversation                                          *)
(***************************************************************************)
\* the timestamp of a record: created_at, else timestamp; parseable when it
\* is one of the ISO timestamps
C12_Timestamp(r) == IF r.created_at # MissingTs THEN r.created_at ELSE r.timestamp
C12_Parseable(t) == t \in 1 .. MaxTime

\* C12: when every reply record has a present, parseable created_at, the
\* details view and the admin panel show the conversation in ascending
\* created_at order, whatever the arrival order.
C12_AscendingWhenAllTimestamped ==
    (rendered.site \in {"reply", "admin"}
        /\ \A k \in DOMAIN replies : C12_Parseable(replies[k].created_at))
        => /\ Len(rendered.out) = Len(replies)
           /\ \A j, k \in DOMAIN rendered.out :
                 j < k => replies[rendered.out[j].id].created_at
                             <= replies[rendered.out[k].id].created_at

\* C13: when at least one reply record lacks a present, parseable timestamp,
\* the conversation is shown in arrival order: no record is moved.
C13_ArrivalOrderFallback ==
    (rendered.site \in {"reply", "admin"} /\ ~ rendered.failed
        /\ \E k \in DOMAIN replies : ~ C12_Parseable(C12_Timestamp(replies[k])))
        => /\ Len(rendered.out) = Len(replies)
           /\ \A k \in DOMAIN rendered.out : rendered.out[k].id = k

C14_Role(r) ==
    IF r.role # Missing THEN r.role
    ELSE IF r.reply_type # Missing THEN r.reply_type ELSE "user"

C14_Text(r) ==
    IF r.text # Missing THEN r.text
    ELSE IF r.content # Missing THEN r.content ELSE ""

\* C14: the details view, the admin conversation view and the conversation
\* context of the AI-reply request all take the role of a record from role,
\* else reply_type, else "user", and its text from text, else content, else
\* the empty string.
C14_SameFieldResolutionEverywhere ==
    rendered.site # "none" =>
        \A k \in DOMAIN rendered.out :
            LET r == replies[rendered.out[k].id]
            IN  /\ rendered.out[k].role =
                      (IF rendered.site = "ai_context"
                       THEN Title(C14_Role(r)) ELSE C14_Role(r))
                /\ rendered.out[k].text = C14_Text(r)

\* C18: a reply whose resolved role is none of user, ai, admin never makes
\* the rendering of the conversation fail: it gets no message bubble, its
\* attachment, if any, is shown, and every reply of the sequence is rendered.
C18_UnknownRoleHarmless ==
    (rendered.site \in {"reply", "admin"}
        /\ \E k \in DOMAIN replies :
              C14_Role(replies[k]) \notin {"user", "ai", "admin"})
        => /\ ~ rendered.failed
           /\ Len(rendered.out) = Len(replies)
           /\ \A k \in DOMAIN rendered.out :
                 LET r == replies[rendered.out[k].id]
                 IN  /\ rendered.out[k].bubble =
                           (IF C14_Role(r) \in {"user", "ai", "admin"}
                            THEN C14_Role(r) ELSE "none")
                     /\ rendered.out[k].attached =
                           (r.attachment_url # NoAttachment)

(***************************************************************************)
(* Properties of the admin session                                         *)
(***************************************************************************)
\* C19: a status update, an admin-role reply or an admin-triggered AI reply
\* is issued only while admin_authenticated is true; the flag starts false,
\* is true only after a login with exactly the shared credentials, stays
\* false after a login with other credentials, and is false after logout,
\* after which no admin operation is issued until a new successful login.
C19_AdminOpsOnlyWhenAuthenticated ==
    /\ admin_op # NoOp => admin_op.authenticated
    /\ ~ admin_authenticated => (admin_op = NoOp /\ apc # "shown")
    /\ admin_authenticated =>
          login_attempt = [username |-> "admin", password |-> "admin"]
    /\ login_attempt = NoLogin => ~ admin_authenticated

\* an admin operation issued after a logout and a second login
C19_Witness ==
    /\ admin_authenticated /\ admin_op.kind = "reply" /\ admin_op.authenticated
    /\ last_update # NoUpdate

\* a login with other credentials leaves the flag false
C19_WitnessRejected ==
    /\ ~ admin_authenticated /\ apc = "login"
    /\ login_attempt = [username |-> "admin", password |-> "Admin"]

\* logged out after an update: back at the login form
C19_WitnessLoggedOut ==
    /\ ~ admin_authenticated /\ apc = "login" /\ last_update # NoUpdate
    /\ login_attempt = [username |-> "admin", password |-> "admin"]

(***************************************************************************)
(* Properties of the reply form                                            *)
(***************************************************************************)
C20_Calls(kind) ==
    {k \in DOMAIN reply_log :
        reply_log[k].ev = "req" /\ reply_log[k].kind = kind}
C20_Blank(text) == \A k \in DOMAIN text : text[k] = " "
C20_UploadedUrls ==
    {reply_log[k].url : k \in {j \in DOMAIN reply_log :
        /\ reply_log[j].ev = "ret" /\ reply_log[j].kind = "upload"
        /\ reply_log[j].url \notin {Null, ""}}}

\* C20: sending a reply from the ticket details view issues no remote call
\* when the text is blank and no file is attached; otherwise the upload, if
\* a file is attached, is issued before the post-reply request, the
\* post-reply request is issued exactly once whether the upload succeeded or
\* failed, carries attachment_url exactly when the upload returned a URL,
\* has role user and a text that is never empty.
C20_ReplySending ==
    /\ (C20_Blank(new_reply) /\ uploaded_file = Null) => reply_log = <<>>
    /\ Cardinality(C20_Calls("upload")) <= 1
    /\ Cardinality(C20_Calls("post_reply")) <= 1
    /\ (rpc \in {"upload", "post", "done"} /\ uploaded_file # Null) =>
          \E u \in C20_Calls("upload") : reply_log[u].file = uploaded_file
    /\ uploaded_file = Null => C20_Calls("upload") = {}
    /\ \A u \in C20_Calls("upload"), p \in C20_Calls("post_reply") : u < p
    /\ (rpc \in {"post", "done"}
          /\ ~ (C20_Blank(new_reply) /\ uploaded_file = Null)) =>
          Cardinality(C20_Calls("post_reply")) = 1
    /\ \A p \in C20_Calls("post_reply") :
          LET data == reply_log[p].data
          IN  /\ data.role = "user"
              /\ data.text # <<>>
              /\ ~ C20_Blank(data.text)
              /\ (data.attachment_url # Missing) = (C20_UploadedUrls # {})
              /\ data.attachment_url # Missing =>
                    data.attachment_url \in C20_UploadedUrls

\* a blank text with a file whose upload failed: the reply is still posted
\* once, with the placeholder and without attachment_url
C20_Witness ==
    /\ rpc = "done" /\ C20_Blank(new_reply) /\ new_reply # <<>>
    /\ uploaded_file = "b.pdf"
    /\ reply_attachment_url = Null
    /\ Len(reply_log) = 4
    /\ reply_log[3].data.attachment_url = Missing
    /\ reply_log[3].data.text[1] = "Shared a file: "

\* a text with a file whose upload gave a URL
C20_WitnessAttached ==
    /\ rpc = "done" /\ ~ C20_Blank(new_reply) /\ uploaded_file # Null
    /\ reply_log[3].data.attachment_url = "signed"

\* blank text, no file: nothing is issued
C20_WitnessBlank ==
    /\ rpc = "done" /\ new_reply = <<" ">> /\ uploaded_file = Null
    /\ reply_log = <<>>

====
